---- MODULE Spec2Model ----
(***************************************************************************)
(* Model of the Mission Clawtrol voice sidecar, services/voice/main.py:    *)
(* the per-connection session loop of voice_ws (message dispatch, the      *)
(* processing / cancelled flags, the STT -> gateway -> TTS pipeline) and   *)
(* the gateway exchange ask_jarvis that runs as a concurrent task.         *)
(*                                                                         *)
(* Texts are sequences of characters.  Audio payloads are described by     *)
(* their size: the base64 text by its number of data and padding           *)
(* characters, the synthesized WAV by its length, a chunk by the byte      *)
(* range it slices out of the WAV.                                         *)
(***************************************************************************)
EXTENDS Integers, Sequences, FiniteSets, TLC

\* ------------------------------------------------------------------ bounds
\* Messages the client sends over the life of one connection.
MaxSent == 2
\* Frames the far end of the gateway connection sends in one exchange.
MaxFrames == 3

\* ------------------------------------------------------- program constants
\* len(audio_bytes) < 500 is rejected.
MinAudioBytes == 500
\* chunk_size of the audio_chunk slices.
ChunkSize == 32768

Missing == "<missing>"
NoVoice == "<none>"
WHISPER_MODEL_SIZE == "base"
DefaultAgent == "cso"

\* session_key = f"agent:{agent_id}:mc-voice"
SessionKeyOf(agent_id) == <<"agent", agent_id, "mc-voice">>

DEFAULT_SESSION_KEY == SessionKeyOf("cso")

\* ---------------------------------------------------------------- helpers
NoText == <<>>

RECURSIVE Join(_)
\* "".join(parts)
Join(parts) == IF parts = <<>> THEN <<>> ELSE Head(parts) \o Join(Tail(parts))

\* a or b or c on strings: the first non-empty one (c when both are empty)
Or3(a, b, c) == IF a # NoText THEN a ELSE IF b # NoText THEN b ELSE c

Min(a, b) == IF a < b THEN a ELSE b

\* ------------------------------------------------ client -> server messages
\* The base64 text of an audio message: data characters and '=' padding.
NoData == [chars |-> 0, pad |-> 0]

AudioPayloads ==
    { NoData,                         \* "" (or no data field)
      [chars |-> 3,   pad |-> 0],     \* "abc": incorrect padding
      [chars |-> 666, pad |-> 2],     \* decodes to 499 bytes
      [chars |-> 667, pad |-> 1] }    \* decodes to 500 bytes

\* base64.b64decode: the decoded length, or -1 when binascii.Error is raised.
B64DecodeLen(p) ==
    IF (p.chars + p.pad) % 4 # 0 THEN -1
    ELSE 3 * ((p.chars + p.pad) \div 4) - p.pad

\* base64.b64encode of n bytes: four characters for every three bytes, the
\* last group filled up with '='.
B64Encode(n) ==
    [chars |-> (4 * n + 2) \div 3, pad |-> (3 - (n % 3)) % 3]

AgentIds == {Missing, "dev"}
SttModels == {Missing}
VoiceModels == {Missing, "amy"}

Msg(t, a, s, v, d) ==
    [type |-> t, agentId |-> a, sttModel |-> s, voiceModel |-> v, data |-> d]

PlainMsg(t) == Msg(t, Missing, Missing, Missing, NoData)

\* Frames the client can put on the connection.  "notext" is a frame with no
\* text, "badjson" a text that is not JSON, "unknown" a JSON object of another
\* type; "websocket.disconnect" is the transport's disconnect notice.
ClientMsgs ==
    { PlainMsg(t) : t \in {"ping", "cancel", "notext", "badjson", "unknown",
                           "websocket.disconnect"} }
    \cup { Msg("config", a, s, v, NoData) :
             a \in AgentIds, s \in SttModels, v \in VoiceModels }
    \cup { Msg("audio", Missing, Missing, Missing, d) : d \in AudioPayloads }

\* A frame as it sits in the inbox: the frame, and whether a turn was in
\* flight (processing was true) when the client sent it.
Tagged(m, b) ==
    [type |-> m.type, agentId |-> m.agentId, sttModel |-> m.sttModel,
     voiceModel |-> m.voiceModel, data |-> m.data, busy |-> b]

NoMsg == Tagged(PlainMsg("none"), FALSE)

\* --------------------------------------------------- server -> client events
Ev(t) == [type |-> t]
ErrorEv(m) == [type |-> "error", message |-> m]
TranscriptEv(t) == [type |-> "transcript", text |-> t]
ResponseEv(t, f) == [type |-> "response_text", text |-> t, final |-> f]
\* An audio_chunk event: the bytes [lo, hi) of the WAV, and their base64 text.
ChunkEv(lo, hi) ==
    [type |-> "audio_chunk", lo |-> lo, hi |-> hi, data |-> B64Encode(hi - lo)]
ConfigOkEv(a, s, k) ==
    [type |-> "config_ok", agentId |-> a, sttModel |-> s, sessionKey |-> k]

\* ------------------------------------------------------------ collaborators
\* transcribe_bytes: a transcript (empty when no speech) or an exception.
Raised == [ok |-> FALSE]
SttResults == { [ok |-> TRUE, text |-> <<>>], [ok |-> TRUE, text |-> <<"h", "i">>], Raised }

\* synthesize_wav_bytes: the WAV (its length) or an exception.
WavSizes == {0, ChunkSize, 2 * ChunkSize + 1}
TtsResults == { [ok |-> TRUE, len |-> n] : n \in WavSizes } \cup { Raised }

\* Gateway frames.  A chat frame carries a state and the texts of its text blocks.
Frame(t, s, c) == [type |-> t, state |-> s, content |-> c]
Fragments == { <<>>, <<"a">>, <<"b">> }
DeltaContents == { <<>> } \cup { <<f>> : f \in Fragments }
                  \cup { <<<<"a">>, <<"b">>>>, <<<<>>, <<"b">>>> }
FinalContents == { <<>>, <<<<>>>>, <<<<"a">>, <<"b">>>>, <<<<"b">>>> }
GwFrames ==
    { Frame(t, "-", <<>>) : t \in {"proxy-ready", "error", "garbage", "other",
                                    "close_ok", "close_err"} }
    \cup { Frame("chat", "delta", c) : c \in DeltaContents }
    \cup { Frame("chat", "final", c) : c \in FinalContents }
    \cup { Frame("chat", s, <<>>) : s \in {"aborted", "error"} }

Apology == <<"I'm sorry, I didn't get a response.">>

\* A local that has not been assigned.
Unset == <<"<unset>">>

VARIABLES
    inbox,          \* frames sent by the client, not yet returned by ws.receive()
    sent,           \* number of frames the client has sent
    pc,             \* where voice_ws is: "recv", "stt", "poll", "tts", "chunks", "closed"
    msg,            \* the message being handled (the last one received)
    out,            \* events sent while handling msg, in order
    turnNo,         \* number of audio turns started
    cancelAt,       \* stage, Len(out) and gwpc when the client first sent cancel in this turn
    session_key, voice_name, processing, cancelled,
    transcript, accumulated, final_response, wav_bytes, i, delta_queue,
    gwpc,           \* where ask_jarvis is: "idle", "connect", "wait_ready", "reading", "done", "cancelled"
    gwFrames,       \* number of frames the far end has sent in this exchange
    gwExpired,      \* loop.time() > deadline
    gwSent,         \* request frames ask_jarvis has sent
    gwResult,       \* what awaiting jarvis_task gives once it is done
    gwArgs,         \* the text and session_key ask_jarvis was called with
    gwTerm,         \* state and text of the terminal chat frame ask_jarvis handled
    response_parts, final_text

sessionVars == <<session_key, voice_name, processing, cancelled>>
turnVars == <<transcript, accumulated, final_response, wav_bytes, i, delta_queue>>
gwVars == <<gwpc, gwFrames, gwExpired, gwSent, gwResult, gwArgs, gwTerm, response_parts, final_text>>
vars == <<inbox, sent, pc, msg, out, turnNo, cancelAt, sessionVars, turnVars, gwVars>>

NoResult == [ok |-> FALSE, text |-> NoText]
NoArgs == [text |-> NoText, session_key |-> <<>>]
NoTerm == [state |-> "none", text |-> NoText]
NoCancel == [stage |-> "none", nOut |-> 0, gw |-> "idle"]

\* The locals of a turn and its gateway task before the turn has assigned them.
FreshTurn ==
    /\ transcript' = Unset /\ accumulated' = NoText /\ final_response' = NoText
    /\ wav_bytes' = 0 /\ i' = 0 /\ delta_queue' = <<>>
    /\ gwpc' = "idle" /\ gwFrames' = 0 /\ gwExpired' = FALSE
    /\ gwSent' = <<>> /\ gwResult' = NoResult /\ gwArgs' = NoArgs /\ gwTerm' = NoTerm
    /\ response_parts' = <<>> /\ final_text' = NoText
    /\ cancelAt' = NoCancel

Init ==
    /\ inbox = <<>> /\ sent = 0
    /\ pc = "recv" /\ msg = NoMsg /\ out = <<Ev("ready")>> /\ turnNo = 0
    /\ session_key = DEFAULT_SESSION_KEY /\ voice_name = NoVoice
    /\ processing = FALSE /\ cancelled = FALSE
    /\ transcript = Unset /\ accumulated = NoText /\ final_response = NoText
    /\ wav_bytes = 0 /\ i = 0 /\ delta_queue = <<>>
    /\ gwpc = "idle" /\ gwFrames = 0 /\ gwExpired = FALSE
    /\ gwSent = <<>> /\ gwResult = NoResult /\ gwArgs = NoArgs /\ gwTerm = NoTerm
    /\ response_parts = <<>> /\ final_text = NoText
    /\ cancelAt = NoCancel

\* ------------------------------------------------------------------ client
\* The client sends a frame; the transport buffers it until ws.receive().
ClientSend ==
    /\ sent < MaxSent
    /\ pc # "closed"
    /\ \E m \in ClientMsgs :
         /\ inbox' = Append(inbox, Tagged(m, processing))
         /\ cancelAt' = IF m.type = "cancel" /\ pc # "recv" /\ cancelAt = NoCancel
                        THEN [stage |-> pc, nOut |-> Len(out), gw |-> gwpc]
                        ELSE cancelAt
    /\ sent' = sent + 1
    /\ UNCHANGED <<pc, msg, out, turnNo, sessionVars, turnVars, gwVars>>

\* ----------------------------------------------------- voice_ws: the loop
\* ws.receive() returns the oldest buffered frame.  The event log and the
\* locals of the turn before it are of no use from here on and start afresh.
Received(t) ==
    /\ pc = "recv"
    /\ inbox # <<>>
    /\ Head(inbox).type \in t
    /\ msg' = Head(inbox)
    /\ inbox' = Tail(inbox)
    /\ FreshTurn
    /\ UNCHANGED sent

\* asyncio.wait_for(ws.receive(), timeout=120.0) times out: keepalive pong.
ReceiveTimeout ==
    /\ pc = "recv"
    /\ inbox = <<>>
    /\ msg' = NoMsg
    /\ out' = <<Ev("pong")>>
    /\ FreshTurn
    /\ UNCHANGED <<inbox, sent, pc, turnNo, sessionVars>>

\* websocket.disconnect: break out of the loop.
HandleDisconnect ==
    /\ Received({"websocket.disconnect"})
    /\ pc' = "closed"
    /\ out' = <<>>
    /\ UNCHANGED <<turnNo, sessionVars>>

\* No text, text that is not JSON, or a type no branch handles: next iteration.
HandleIgnored ==
    /\ Received({"notext", "badjson", "unknown"})
    /\ out' = <<>>
    /\ UNCHANGED <<pc, turnNo, sessionVars>>

HandlePing ==
    /\ Received({"ping"})
    /\ out' = <<Ev("pong")>>
    /\ UNCHANGED <<pc, turnNo, sessionVars>>

\* msg.get(field, default)
Get(v, default) == IF v = Missing THEN default ELSE v

\* An acknowledgement built before session_key is assigned.
ConfigAck_Stale(agent_id, stt_model) ==
    ConfigOkEv(agent_id, stt_model, session_key)

\* The config_ok event: it is built after the assignment of session_key.
ConfigAck(agent_id, stt_model) ==
    ConfigOkEv(agent_id, stt_model, session_key')

HandleConfig ==
    /\ Received({"config"})
    /\ LET agent_id == Get(Head(inbox).agentId, DefaultAgent)
           stt_model == Get(Head(inbox).sttModel, WHISPER_MODEL_SIZE)
           voice_model == Head(inbox).voiceModel
       IN /\ session_key' = SessionKeyOf(agent_id)
          /\ voice_name' = IF voice_model # Missing THEN voice_model ELSE voice_name
          /\ out' = <<ConfigAck(agent_id, stt_model)>>
    /\ UNCHANGED <<pc, turnNo, processing, cancelled>>

\* A cancel branch that acknowledges without raising the flag.
CancelFlags_Forget == cancelled' = cancelled /\ processing' = FALSE

\* cancelled = True; processing = False
CancelFlags == cancelled' = TRUE /\ processing' = FALSE

HandleCancel ==
    /\ Received({"cancel"})
    /\ CancelFlags
    /\ out' = <<Ev("cancelled")>>
    /\ UNCHANGED <<pc, turnNo, session_key, voice_name>>

\* A turn start that leaves cancelled as the last cancel left it.
TurnFlags_KeepCancelled == processing' = TRUE /\ cancelled' = cancelled

\* processing = True; cancelled = False
TurnFlags == processing' = TRUE /\ cancelled' = FALSE

\* The turn starts.
StartTurn ==
    /\ TurnFlags
    /\ pc' = "stt"
    /\ turnNo' = turnNo + 1
    /\ out' = <<>>
    /\ UNCHANGED <<session_key, voice_name>>

\* A threshold that lets audio one byte below the minimum through.
TooShort_OffByOne(n) == n < MinAudioBytes - 1

\* len(audio_bytes) < 500
TooShort(n) == n < MinAudioBytes

\* The audio branch up to the start of the pipeline.
HandleAudio ==
    /\ Received({"audio"})
    /\ LET audio_b64 == Head(inbox).data
           n == B64DecodeLen(audio_b64)
       IN IF processing
          THEN /\ out' = <<ErrorEv("Already processing")>>
               /\ UNCHANGED <<pc, turnNo, sessionVars>>
          ELSE IF audio_b64 = NoData
          THEN /\ out' = <<ErrorEv("No audio data")>>
               /\ UNCHANGED <<pc, turnNo, sessionVars>>
          ELSE IF n < 0
          THEN \* binascii.Error leaves the loop through the outer except
               /\ out' = <<>>
               /\ pc' = "closed"
               /\ UNCHANGED <<turnNo, sessionVars>>
          ELSE IF TooShort(n)
          THEN /\ out' = <<ErrorEv("Audio too short")>>
               /\ UNCHANGED <<pc, turnNo, sessionVars>>
          ELSE StartTurn

\* ------------------------------------------------- voice_ws: the pipeline
\* A finally clause that leaves the flag as it is.
Finally_Forget == processing' = processing

\* finally: processing = False
Finally == processing' = FALSE

\* The turn is over (continue, the end of the try body, or the except clause):
\* the last events go out, the finally clause runs and the loop is back at
\* ws.receive().
EndTurn(evs) ==
    /\ out' = out \o evs
    /\ pc' = "recv"
    /\ Finally
    /\ UNCHANGED <<inbox, sent, msg, turnNo, cancelAt, session_key, voice_name, cancelled>>

\* except Exception as exc: one error event
PipelineError(m) == EndTurn(<<ErrorEv(m)>>)

\* A check for an empty transcript that never fires.
NoSpeech_Never(text) == FALSE

\* if not transcript
NoSpeech(text) == text = NoText

\* thinking sent ahead of the transcript.
SttEvents_Swapped(text) == <<Ev("thinking"), TranscriptEv(text)>>

\* The events that follow a transcript: transcript, then thinking.
SttEvents(text) == <<TranscriptEv(text), Ev("thinking")>>

\* A task created for the default session, whatever the session's key is.
JarvisArgs_Default(text) == [text |-> text, session_key |-> DEFAULT_SESSION_KEY]

\* ask_jarvis(text, session_key=session_key, on_delta=delta_queue)
JarvisArgs(text) == [text |-> text, session_key |-> session_key]

\* The executor returns from transcribe_bytes; on a transcript the transcript
\* and thinking events go out and the ask_jarvis task is created.
SttDone ==
    /\ pc = "stt"
    /\ \E r \in SttResults :
         IF ~r.ok
         THEN PipelineError("stt failed") /\ UNCHANGED <<turnVars, gwVars>>
         ELSE /\ transcript' = r.text
              /\ IF NoSpeech(r.text)
                 THEN /\ EndTurn(<<ErrorEv("No speech detected")>>)
                      /\ UNCHANGED <<accumulated, delta_queue, gwpc, gwArgs>>
                 ELSE IF cancelled
                 THEN /\ EndTurn(SubSeq(SttEvents(r.text), 1, 1))
                      /\ UNCHANGED <<accumulated, delta_queue, gwpc, gwArgs>>
                 ELSE /\ out' = out \o SttEvents(r.text)
                      /\ delta_queue' = <<>>
                      /\ accumulated' = NoText
                      /\ gwpc' = "connect"
                      /\ gwArgs' = JarvisArgs(r.text)
                      /\ pc' = "poll"
                      /\ UNCHANGED <<inbox, sent, msg, turnNo, cancelAt, sessionVars>>
              /\ UNCHANGED <<final_response, wav_bytes, i, gwFrames, gwExpired,
                             gwSent, gwResult, gwTerm, response_parts, final_text>>

\* jarvis_task.done()
TaskDone == gwpc \in {"done", "cancelled"}

\* One iteration of "while not jarvis_task.done()": cancel the task when
\* cancelled is set, else take one delta from the queue and send the
\* accumulated text, or time out after 0.5 s on an empty queue.
PollIter ==
    /\ pc = "poll"
    /\ ~TaskDone
    /\ IF cancelled
       THEN /\ gwpc' = "cancelled"
            /\ EndTurn(<<>>)
            /\ UNCHANGED <<turnVars, gwFrames, gwExpired, gwSent, gwResult, gwArgs, gwTerm,
                           response_parts, final_text>>
       ELSE IF delta_queue # <<>>
       THEN /\ accumulated' = accumulated \o Head(delta_queue)
            /\ delta_queue' = Tail(delta_queue)
            /\ out' = Append(out, ResponseEv(accumulated \o Head(delta_queue), FALSE))
            /\ UNCHANGED <<inbox, sent, pc, msg, turnNo, cancelAt, sessionVars,
                           transcript, final_response, wav_bytes, i, gwVars>>
       ELSE UNCHANGED vars

\* The loop ends because the task is done; await jarvis_task gives its result
\* or raises its exception; the final response_text goes out, and the
\* checkpoint before TTS follows it.
PollExit ==
    /\ pc = "poll"
    /\ TaskDone
    /\ IF cancelled THEN EndTurn(<<>>) /\ UNCHANGED <<turnVars, gwVars>>
       ELSE IF gwpc = "cancelled" THEN EndTurn(<<>>) /\ UNCHANGED <<turnVars, gwVars>>
       ELSE IF ~gwResult.ok
       THEN PipelineError("Could not reach Jarvis") /\ UNCHANGED <<turnVars, gwVars>>
       ELSE LET r == IF gwResult.text = NoText THEN accumulated ELSE gwResult.text
            IN /\ final_response' = r
               /\ IF cancelled THEN EndTurn(<<ResponseEv(r, TRUE)>>)
                  ELSE /\ out' = Append(out, ResponseEv(r, TRUE))
                       /\ pc' = "tts"
                       /\ UNCHANGED <<inbox, sent, msg, turnNo, cancelAt, sessionVars>>
               /\ UNCHANGED <<transcript, accumulated, wav_bytes, i, delta_queue, gwVars>>

\* The executor returns from synthesize_wav_bytes.
TtsDone ==
    /\ pc = "tts"
    /\ \E r \in TtsResults :
         IF ~r.ok THEN PipelineError("tts failed") /\ UNCHANGED <<turnVars, gwVars>>
         ELSE /\ wav_bytes' = r.len
              /\ i' = 0
              /\ pc' = "chunks"
              /\ UNCHANGED <<inbox, sent, msg, out, turnNo, cancelAt, sessionVars,
                             transcript, accumulated, final_response, delta_queue, gwVars>>

\* A slice that stops one byte early.
SliceEnd_Short(lo, n) == Min(lo + ChunkSize - 1, n)

\* wav_bytes[i : i + chunk_size] ends at i + chunk_size or at the end of the WAV.
SliceEnd(lo, n) == Min(lo + ChunkSize, n)

\* for i in range(0, len(wav_bytes), chunk_size): one slice, or the end of
\* the loop (also by break when cancelled) and audio_end.
ChunkStep ==
    /\ pc = "chunks"
    /\ IF i < wav_bytes /\ ~cancelled
       THEN /\ out' = Append(out, ChunkEv(i, SliceEnd(i, wav_bytes)))
            /\ i' = i + ChunkSize
            /\ UNCHANGED <<inbox, sent, pc, msg, turnNo, cancelAt, sessionVars,
                           transcript, accumulated, final_response, wav_bytes,
                           delta_queue, gwVars>>
       ELSE EndTurn(<<Ev("audio_end")>>) /\ UNCHANGED <<turnVars, gwVars>>

\* ------------------------------------------------------------- ask_jarvis
\* Every text block published, the empty ones too.
DeltasOf_KeepEmpty(content) == content

\* The texts of a delta frame's text blocks that are published: the non-empty ones.
DeltasOf(content) == SelectSeq(content, LAMBDA d : d # NoText)

\* raise RuntimeError(f"Could not reach Jarvis: {exc}")
GwRaise ==
    /\ gwpc' = "done"
    /\ gwResult' = [ok |-> FALSE, text |-> NoText]

\* A return without the apology sentence at the end of the chain.
ReturnValue_NoApology(ft, parts) == Or3(ft, Join(parts), NoText)

\* return final_text or "".join(response_parts) or the apology
ReturnValue(ft, parts) == Or3(ft, Join(parts), Apology)

GwReturn(ft, parts) ==
    /\ gwpc' = "done"
    /\ gwResult' = [ok |-> TRUE, text |-> ReturnValue(ft, parts)]

\* loop.time() passes the deadline.
DeadlineElapses ==
    /\ gwpc = "reading"
    /\ ~gwExpired
    /\ gwExpired' = TRUE
    /\ UNCHANGED <<inbox, sent, pc, msg, out, turnNo, cancelAt, sessionVars, turnVars,
                   gwpc, gwFrames, gwSent, gwResult, gwArgs, gwTerm, response_parts, final_text>>

\* ws_lib.connect(gateway_url, open_timeout=10): connected, or an exception.
GwConnect ==
    /\ gwpc = "connect"
    /\ \/ gwpc' = "wait_ready" /\ UNCHANGED gwResult
       \/ GwRaise
    /\ UNCHANGED <<inbox, sent, pc, msg, out, turnNo, cancelAt, sessionVars, turnVars,
                   gwFrames, gwExpired, gwSent, gwArgs, gwTerm, response_parts, final_text>>

\* A request with the two parameters exchanged.
ChatSend_Swapped ==
    [method |-> "chat.send", sessionKey |-> gwArgs.text,
     message |-> gwArgs.session_key]

\* The chat.send request for the arguments ask_jarvis was called with (the
\* request id and the idempotency key are fresh random values, left out).
ChatSend ==
    [method |-> "chat.send", sessionKey |-> gwArgs.session_key,
     message |-> gwArgs.text]

\* The far end sends frame f (or closes the connection) and the first
\* "async for raw in gw" takes it: wait for proxy-ready, then send the
\* chat.send request and start the deadline.
GwWaitReady ==
    /\ gwpc = "wait_ready"
    /\ gwFrames < MaxFrames
    /\ gwFrames' = gwFrames + 1
    /\ \E f \in GwFrames :
          IF f.type = "close_err" \/ f.type = "close_ok" \/ f.type = "error"
          THEN GwRaise /\ UNCHANGED <<gwSent, gwExpired>>
          ELSE IF f.type = "proxy-ready"
          THEN /\ gwSent' = Append(gwSent, ChatSend)
               /\ gwExpired' = FALSE
               /\ gwpc' = "reading"
               /\ UNCHANGED gwResult
          ELSE UNCHANGED <<gwpc, gwSent, gwExpired, gwResult>>
    /\ UNCHANGED <<inbox, sent, pc, msg, out, turnNo, cancelAt, sessionVars, turnVars,
                   gwArgs, gwTerm, response_parts, final_text>>

\* A final frame whose own text is used only when no delta was accumulated.
FinalText_DeltasFirst(content, parts) == Or3(Join(parts), Join(content), NoText)

\* final_text = "".join(parts) or "".join(response_parts)
FinalText(content, parts) == Or3(Join(content), Join(parts), NoText)

\* The far end sends frame f (or closes the connection) and the second
\* "async for raw in gw" takes it.
GwRead ==
    /\ gwpc = "reading"
    /\ gwFrames < MaxFrames
    /\ gwFrames' = gwFrames + 1
    /\ \E f \in GwFrames :
       LET isChat == f.type = "chat"
       IN IF f.type = "close_err"
          THEN GwRaise /\ UNCHANGED <<response_parts, final_text, delta_queue, gwTerm>>
          ELSE IF f.type = "close_ok" \/ gwExpired
          THEN /\ GwReturn(final_text, response_parts)
               /\ UNCHANGED <<response_parts, final_text, delta_queue, gwTerm>>
          ELSE IF isChat /\ f.state = "delta"
          THEN /\ response_parts' = response_parts \o DeltasOf(f.content)
               /\ delta_queue' = delta_queue \o DeltasOf(f.content)
               /\ UNCHANGED <<gwpc, gwResult, final_text, gwTerm>>
          ELSE IF isChat /\ f.state = "final"
          THEN /\ final_text' = FinalText(f.content, response_parts)
               /\ GwReturn(FinalText(f.content, response_parts), response_parts)
               /\ gwTerm' = [state |-> f.state, text |-> Join(f.content)]
               /\ UNCHANGED <<response_parts, delta_queue>>
          ELSE IF isChat /\ f.state \in {"aborted", "error"}
          THEN /\ final_text' = Join(response_parts)
               /\ IF Join(response_parts) = NoText
                  THEN GwRaise
                  ELSE GwReturn(Join(response_parts), response_parts)
               /\ gwTerm' = [state |-> f.state, text |-> Join(f.content)]
               /\ UNCHANGED <<response_parts, delta_queue>>
          ELSE UNCHANGED <<gwpc, gwResult, response_parts, final_text,
                           delta_queue, gwTerm>>
    /\ UNCHANGED <<inbox, sent, pc, msg, out, turnNo, cancelAt, sessionVars,
                   transcript, accumulated, final_response, wav_bytes, i,
                   gwExpired, gwSent, gwArgs>>

\* ------------------------------------------------------------ specification
\* Steps of the service itself: the session loop, the pipeline, the gateway
\* task's connect and the passing of time.
Program ==
    \/ ReceiveTimeout
    \/ HandleDisconnect
    \/ HandleIgnored
    \/ HandlePing
    \/ HandleConfig
    \/ HandleCancel
    \/ HandleAudio
    \/ SttDone
    \/ PollIter
    \/ PollExit
    \/ TtsDone
    \/ ChunkStep
    \/ GwConnect
    \/ DeadlineElapses

\* Steps that need the client or the far end of the gateway to send something.
Environment ==
    \/ ClientSend
    \/ GwWaitReady
    \/ GwRead

Next == Program \/ Environment

Spec == Init /\ [][Next]_vars

\* The event loop runs every task that can run, the executors return and time
\* passes; nothing obliges the client or the gateway to send.
FairSpec == Spec /\ WF_vars(Program)

\* ------------------------------------------------------------------ claims
TurnStages == {"stt", "poll", "tts", "chunks"}
TurnEventTypes == {"transcript", "thinking", "response_text", "audio_chunk", "audio_end"}

HasType(o, T) == \E k \in 1..Len(o) : o[k].type \in T
IsPartial(e) == e.type = "response_text" /\ ~e.final
IsFinal(e) == e.type = "response_text" /\ e.final
Partials(o) == SelectSeq(o, IsPartial)
NoError(o) == ~HasType(o, {"error"})

\* The next frame ws.receive() will return is an audio message the size check accepts.
GoodAudioNext ==
    /\ inbox # <<>>
    /\ Head(inbox).type = "audio"
    /\ B64DecodeLen(Head(inbox).data) >= MinAudioBytes

C2_CancelSuppresses ==
    /\ cancelAt.stage = "stt" => ~HasType(out, TurnEventTypes)
    /\ cancelAt.stage = "poll" =>
          \A k \in 1..Len(out) :
             ~IsFinal(out[k]) /\ out[k].type \notin {"audio_chunk", "audio_end"}
    /\ cancelAt.stage = "chunks" =>
          \A k \in 1..Len(out) : k > cancelAt.nOut => out[k].type # "audio_chunk"

\* C3: whenever a turn leaves the pipeline, by whatever path, the session is
\* back at receive with processing = false, and an audio message of sufficient
\* size that is received next starts a new turn.
C3_TurnEndsIdle ==
    [][ /\ (pc \in TurnStages /\ pc' \notin TurnStages)
            => (pc' = "recv" /\ ~processing')
        /\ (pc = "recv" /\ GoodAudioNext /\ inbox' = Tail(inbox))
            => (pc' = "stt" /\ processing' /\ turnNo' = turnNo + 1)
      ]_vars

\* A turn failed in TTS, the session is idle again and an acceptable audio
\* message is the next to be received.
C3_Witness ==
    /\ pc = "recv" /\ msg.type = "audio" /\ turnNo = 1
    /\ out # <<>> /\ out[Len(out)] = ErrorEv("tts failed")
    /\ ~processing
    /\ GoodAudioNext

\* C4: a ping the client sent while a turn was in flight is answered without
\* waiting for that turn to finish: it is never still unanswered, next in the
\* inbox, when the session is back at receive.
C4_PingNotGated ==
    ~(pc = "recv" /\ inbox # <<>> /\ Head(inbox).type = "ping" /\ Head(inbox).busy)

\* C5: when the final response_text of an exchange has gone out, every delta
\* the gateway task published has produced one non-final response_text before
\* it, the k-th carrying the concatenation of the first k deltas.
C5_EveryDeltaForwarded ==
    (\E j \in 1..Len(out) : IsFinal(out[j]))
       => /\ Len(Partials(out)) = Len(response_parts)
          /\ \A k \in 1..Len(Partials(out)) :
                Partials(out)[k].text = Join(SubSeq(response_parts, 1, k))

\* C6: when STT returns the empty string the turn is over at once: one 'no
\* speech detected' error and no other event, no gateway task, no TTS, and
\* processing is false.
C6_NoSpeech ==
    transcript = NoText
       => /\ pc = "recv"
          /\ out = <<ErrorEv("No speech detected")>>
          /\ ~processing
          /\ gwpc = "idle" /\ gwArgs = NoArgs /\ gwSent = <<>>
          /\ final_response = NoText /\ wav_bytes = 0

C6_Witness ==
    /\ transcript = NoText /\ msg.type = "audio" /\ turnNo = 1
    /\ out = <<ErrorEv("No speech detected")>>

\* C7: once the deadline of the gateway exchange has elapsed, the exchange
\* stops reading, also when the far end sends nothing more.
C7_DeadlineEndsExchange ==
    (gwpc = "reading" /\ gwExpired) ~> (gwpc # "reading")

\* C8: only a transport-level disconnect ends the session loop; no failure
\* while handling an audio message does.
C8_OnlyDisconnectEnds ==
    pc = "closed" => msg.type = "websocket.disconnect"

\* The place of an event in the order of a turn.
Phase(e) ==
    CASE e.type = "transcript" -> 1
      [] e.type = "thinking" -> 2
      [] IsPartial(e) -> 3
      [] IsFinal(e) -> 4
      [] e.type = "audio_chunk" -> 5
      [] e.type = "audio_end" -> 6
      [] OTHER -> 0

\* Which event may directly follow which.
MayFollow(a, b) ==
    \/ Phase(a) = 1 /\ Phase(b) = 2
    \/ Phase(a) = 2 /\ Phase(b) \in {3, 4}
    \/ Phase(a) = 3 /\ Phase(b) \in {3, 4}
    \/ Phase(a) = 4 /\ Phase(b) = 5 /\ b.lo = 0
    \/ Phase(a) = 4 /\ Phase(b) = 6
    \/ Phase(a) = 5 /\ Phase(b) = 5 /\ b.lo = a.hi
    \/ Phase(a) = 5 /\ Phase(b) = 6

\* C9: the events of a turn without error come in the order transcript,
\* thinking, non-final response_text (any number), final response_text,
\* audio_chunk (in slice order), audio_end: the first is the transcript, each
\* next one is one the order allows after its predecessor, nothing follows
\* audio_end, and when the turn is over the last one is audio_end.
C9_EventOrder ==
    (msg.type = "audio" /\ turnNo > 0 /\ NoError(out) /\ out # <<>>)
       => /\ Phase(out[1]) = 1
          /\ \A k \in 1..(Len(out) - 1) : MayFollow(out[k], out[k + 1])
          /\ pc = "recv" => Phase(out[Len(out)]) = 6

\* A complete turn with a partial response and more than one audio chunk.
C9_Witness ==
    /\ pc = "recv" /\ msg.type = "audio" /\ out # <<>>
    /\ out[Len(out)].type = "audio_end"
    /\ Len(Partials(out)) >= 1
    /\ Len(SelectSeq(out, LAMBDA e : e.type = "audio_chunk")) >= 2

\* C10: the k-th non-final response_text of a turn carries the concatenation
\* of the first k deltas the gateway task published, each of them non-empty:
\* every partial is its predecessor (or the empty accumulator) with one
\* non-empty delta appended, so the lengths strictly grow.
C10_PartialsGrow ==
    LET P == Partials(out)
    IN \A k \in 1..Len(P) :
          /\ k <= Len(response_parts)
          /\ response_parts[k] # NoText
          /\ P[k].text = (IF k = 1 THEN NoText ELSE P[k - 1].text) \o response_parts[k]
          /\ Len(P[k].text) > (IF k = 1 THEN 0 ELSE Len(P[k - 1].text))

\* Two partial events of one turn.
C10_Witness ==
    /\ Len(Partials(out)) >= 2
    /\ Partials(out)[1].text # Partials(out)[2].text

\* ---------------------------------------------------------------------- C11
Chunks(o) == SelectSeq(o, LAMBDA e : e.type = "audio_chunk")

\* C11: in a turn that is not cancelled, the audio_chunk events emitted so far,
\* in order, are consecutive slices of the WAV the TTS adapter returned,
\* starting at byte 0: every slice but the last has the chunk size, the last
\* is not empty and not longer, the base64 text of each decodes to exactly
\* the bytes of its slice, and once audio_end is out the slices end at the
\* last byte of the WAV (no chunk at all for an empty WAV).
C11_ChunksReproduceWav ==
    (cancelAt = NoCancel /\ ~cancelled) =>
        LET c == Chunks(out)
            n == Len(c)
        IN /\ \A k \in 1..n :
                /\ c[k].lo = (IF k = 1 THEN 0 ELSE c[k - 1].hi)
                /\ c[k].hi > c[k].lo
                /\ c[k].hi - c[k].lo <= ChunkSize
                /\ k < n => c[k].hi - c[k].lo = ChunkSize
                /\ c[k].hi <= wav_bytes
                /\ B64DecodeLen(c[k].data) = c[k].hi - c[k].lo
           /\ HasType(out, {"audio_end"}) =>
                /\ out[Len(out)].type = "audio_end"
                /\ (IF n = 0 THEN 0 ELSE c[n].hi) = wav_bytes

\* A WAV of two full slices and one byte has been delivered in three chunks.
C11_Witness ==
    /\ cancelAt = NoCancel /\ ~cancelled
    /\ wav_bytes = 2 * ChunkSize + 1
    /\ Len(Chunks(out)) = 3
    /\ HasType(out, {"audio_end"})

\* ---------------------------------------------------------------------- C12
SameConfig(a, b) ==
    /\ a.type = "config" /\ b.type = "config"
    /\ a.agentId = b.agentId /\ a.sttModel = b.sttModel
    /\ a.voiceModel = b.voiceModel

\* The session receives the frame at the head of the inbox.
Dispatch == pc = "recv" /\ inbox # <<>> /\ inbox' = Tail(inbox)

\* C12: when a config message is handled directly after a config message with
\* the same agentId, sttModel and voiceModel, the second handling leaves
\* session_key, voice_name, processing and cancelled as the first one left
\* them, and its config_ok event equals the first one (same agentId,
\* sttModel and sessionKey).
C12_ConfigIdempotent ==
    [][ (Dispatch /\ SameConfig(msg, Head(inbox))) =>
            /\ sessionVars' = sessionVars
            /\ out' = out
            /\ Len(out') = 1 /\ out'[1].type = "config_ok"
            /\ out'[1].sessionKey = session_key' ]_vars

\* A config naming an agent and a voice has been handled, and the same config
\* is the next frame to handle.
C12_Witness ==
    /\ pc = "recv" /\ inbox # <<>>
    /\ SameConfig(msg, Head(inbox))
    /\ msg.agentId = "dev" /\ msg.voiceModel = "amy"
    /\ out = <<ConfigOkEv("dev", WHISPER_MODEL_SIZE, SessionKeyOf("dev"))>>
    /\ session_key = SessionKeyOf("dev") /\ voice_name = "amy"

\* ---------------------------------------------------------------------- C13
\* C13: handling a cancel sets cancelled, clears processing, sends exactly one
\* cancelled event and leaves session_key and voice_name alone; a cancel
\* handled directly after a cancel changes nothing and sends the same event;
\* and a cancel handled while no turn is in flight does not reach into later
\* turns: the next accepted audio starts its turn with cancelled = false, and
\* cancelled stays false through every stage of that turn, so no checkpoint
\* of the turn suppresses an event.
C13_CancelBetweenTurns ==
    [][ /\ (Dispatch /\ Head(inbox).type = "cancel") =>
              /\ cancelled' /\ ~processing'
              /\ out' = <<Ev("cancelled")>>
              /\ pc' = "recv"
              /\ session_key' = session_key /\ voice_name' = voice_name
              /\ msg.type = "cancel" => (sessionVars' = sessionVars /\ out' = out)
        /\ (Dispatch /\ cancelled /\ GoodAudioNext) =>
              (pc' = "stt" /\ ~cancelled' /\ processing' /\ turnNo' = turnNo + 1)
        /\ pc' \in TurnStages => ~cancelled' ]_vars

\* A cancel has been handled with no turn in flight, and an acceptable audio
\* message is the next frame to handle.
C13_Witness ==
    /\ pc = "recv" /\ msg.type = "cancel" /\ ~msg.busy
    /\ cancelled /\ ~processing
    /\ out = <<Ev("cancelled")>>
    /\ GoodAudioNext

\* ---------------------------------------------------------------------- C14
Succeeded(t) == gwpc = "done" /\ gwResult = [ok |-> TRUE, text |-> t]
Failed == gwpc = "done" /\ ~gwResult.ok

\* C14 as stated: a final frame ends the exchange with the frame's own text,
\* or with the accumulated deltas (whatever they are) when it has none; an
\* aborted or error frame ends it with the accumulated deltas when there are
\* some, and with a failure otherwise.
C14_TerminalFrames ==
    /\ gwTerm.state = "final" =>
          Succeeded(IF gwTerm.text # NoText THEN gwTerm.text
                    ELSE Join(response_parts))
    /\ gwTerm.state \in {"aborted", "error"} =>
          IF Join(response_parts) # NoText
          THEN Succeeded(Join(response_parts)) ELSE Failed

TerminalOutcome ==
    /\ gwTerm.state = "final" =>
          Succeeded(IF gwTerm.text # NoText THEN gwTerm.text
                    ELSE IF Join(response_parts) # NoText THEN Join(response_parts)
                    ELSE Apology)
    /\ gwTerm.state \in {"aborted", "error"} =>
          IF Join(response_parts) # NoText
          THEN Succeeded(Join(response_parts)) ELSE Failed
    /\ gwTerm # NoTerm => gwpc = "done"

\* C14, amended: as stated, except that a final frame without text that
\* arrives when no delta has been accumulated ends the exchange successfully
\* with the fixed apology sentence, not with the empty text.  Once a terminal
\* frame has been handled the exchange is over, and until the next message
\* is received no further frame is taken and its outcome does not change.
C14_TerminalFramesOrApology ==
    /\ []TerminalOutcome
    /\ [][ (gwTerm # NoTerm /\ gwTerm' # NoTerm) =>
              UNCHANGED <<gwTerm, gwFrames, gwResult, response_parts, final_text>> ]_vars

\* A final frame with its own text has ended an exchange in which a different
\* delta text had been accumulated.
C14_Witness ==
    /\ gwTerm.state = "final" /\ gwTerm.text = <<"b">>
    /\ response_parts = <<<<"a">>>>
    /\ Succeeded(<<"b">>)

\* ---------------------------------------------------------------------- C15
\* C15: until the gateway task has taken a proxy-ready frame it has sent
\* nothing; an exchange that is over without a request having been sent (an
\* error frame or the end of the connection came before proxy-ready, or the
\* connection could not be opened) has failed; and from proxy-ready on the
\* frames sent are exactly one chat.send request, with the session key and
\* the text ask_jarvis was called with.
C15_OneRequestAfterReady ==
    LET request == [method |-> "chat.send",
                    sessionKey |-> gwArgs.session_key, message |-> gwArgs.text]
    IN /\ gwpc \in {"idle", "connect", "wait_ready"} => gwSent = <<>>
       /\ gwpc = "reading" => gwSent = <<request>>
       /\ gwpc \in {"done", "cancelled"} =>
             /\ gwSent = <<>> \/ gwSent = <<request>>
             /\ gwSent = <<>> => ~gwResult.ok
             /\ gwResult.ok => gwSent = <<request>>
       /\ gwSent # <<>> => gwArgs.text = transcript /\ gwArgs.text # NoText

\* After a config for agent "dev", an exchange has ended successfully after
\* three frames with one request sent for that agent's session.
C15_Witness ==
    /\ gwpc = "done" /\ gwResult.ok /\ gwFrames = MaxFrames
    /\ Len(gwSent) = 1
    /\ gwSent[1].sessionKey = SessionKeyOf("dev")
    /\ gwSent[1].message = <<"h", "i">>

\* ---------------------------------------------------------------------- C16
\* C16: session_key changes only in the step that handles a config message,
\* which sets it to the key of the agent the message names; it does not
\* change while a turn is in flight, so a config sent during a turn waits and
\* applies from the next turn on; and the key the turn's gateway task was
\* called with, and the key in the request it sent, are the session_key of
\* the turn.
C16_KeyFixedForTurn ==
    [][ /\ session_key' # session_key =>
              /\ Dispatch /\ Head(inbox).type = "config"
              /\ session_key' = SessionKeyOf(Get(Head(inbox).agentId, DefaultAgent))
        /\ pc \in TurnStages => session_key' = session_key
        /\ pc' \in TurnStages =>
              /\ gwArgs' # NoArgs => gwArgs'.session_key = session_key'
              /\ \A k \in 1..Len(gwSent') : gwSent'[k].sessionKey = session_key' ]_vars

\* A turn has sent its request with the key the session had when the turn
\* started, and a config for agent "dev", sent during the turn, is waiting
\* in the inbox.
C16_Witness ==
    /\ pc \in TurnStages
    /\ session_key = DEFAULT_SESSION_KEY
    /\ gwSent # <<>> /\ gwSent[1].sessionKey = DEFAULT_SESSION_KEY
    /\ inbox # <<>>
    /\ Head(inbox).type = "config" /\ Head(inbox).agentId = "dev"
    /\ Head(inbox).busy

\* ---------------------------------------------------------------------- C17
\* The payload of the audio message is empty, or is well-formed base64 of
\* fewer bytes than the minimum.
Undersized(m) ==
    /\ m.type = "audio"
    /\ \/ m.data = NoData
       \/ B64DecodeLen(m.data) >= 0 /\ B64DecodeLen(m.data) < MinAudioBytes

\* C17: handling an audio message with an empty or undersized payload sends
\* exactly one error event and starts no turn: the session stays at receive,
\* processing is false, cancelled, session_key and voice_name keep their
\* values, no turn is counted, and STT, the gateway task and TTS are not
\* started (the turn's locals stay unassigned).
C17_ShortAudioRejected ==
    [][ (Dispatch /\ Undersized(Head(inbox))) =>
            /\ Len(out') = 1 /\ out'[1].type = "error"
            /\ pc' = "recv" /\ turnNo' = turnNo
            /\ ~processing' /\ cancelled' = cancelled
            /\ session_key' = session_key /\ voice_name' = voice_name
            /\ transcript' = Unset /\ gwpc' = "idle" /\ gwSent' = <<>>
            /\ final_response' = NoText /\ wav_bytes' = 0 ]_vars

\* A 499-byte audio message has been rejected after a cancel: cancelled is
\* still true and no turn has started.
C17_Witness ==
    /\ pc = "recv" /\ msg.type = "audio"
    /\ B64DecodeLen(msg.data) = MinAudioBytes - 1
    /\ out = <<ErrorEv("Audio too short")>>
    /\ cancelled /\ ~processing /\ turnNo = 0

C19_OneMessageAtATime ==
    [][ /\ Len(inbox') < Len(inbox) =>
              (pc = "recv" /\ ~processing /\ inbox' = Tail(inbox))
        /\ pc \in TurnStages =>
              /\ msg' = msg /\ msg.type = "audio"
              /\ Len(inbox') >= Len(inbox)
              /\ SubSeq(inbox', 1, Len(inbox)) = inbox
        /\ pc' \in TurnStages => (processing' /\ ~cancelled')
        /\ pc' = "recv" => ~processing' ]_vars

\* The turn is delivering audio chunks with cancelled = false while a cancel
\* the client sent during the turn waits at the head of the inbox.
C19_Witness ==
    /\ pc = "chunks" /\ i > 0
    /\ processing /\ ~cancelled
    /\ inbox # <<>> /\ Head(inbox).type = "cancel" /\ Head(inbox).busy

\* ---------------------------------------------------------------------- C20
\* C20: a gateway task that has returned a result has returned a non-empty
\* text; every final response_text event carries exactly that text, so it is
\* not empty and the fallback to the session's accumulated text is not what
\* produced it; and while TTS runs or its audio is delivered, the text given
\* to TTS is that non-empty text.
C20_ResponseNeverEmpty ==
    /\ (gwpc = "done" /\ gwResult.ok) => gwResult.text # NoText
    /\ \A k \in 1..Len(out) :
          IsFinal(out[k]) =>
             /\ out[k].text # NoText
             /\ gwResult.ok /\ out[k].text = gwResult.text
    /\ pc \in {"tts", "chunks"} =>
          (final_response # NoText /\ final_response = gwResult.text)

\* A final frame without text ended an exchange without deltas: the task
\* returned the apology sentence and TTS is running on it.
C20_Witness ==
    /\ pc = "tts" /\ gwTerm.state = "final" /\ gwTerm.text = NoText
    /\ response_parts = <<>> /\ accumulated = NoText
    /\ gwResult = [ok |-> TRUE, text |-> Apology]
    /\ final_response = Apology
    /\ out[Len(out)] = ResponseEv(Apology, TRUE)
====
